---- MODULE Spec2Model ----
(***************************************************************************)
(* A model of hadoop_mr_tests/util.py: the cluster test driver.  The       *)
(* driver is a single sequential Python process.  Each public function of  *)
(* util.py is one action; the exit codes of the processes it spawns, the   *)
(* text they print and the OSErrors of the local filesystem calls are the  *)
(* inputs of the action.                                                   *)
(***************************************************************************)
EXTENDS Integers, Sequences, FiniteSets, TLC

VARIABLES
    alive,      \* the Python process has not terminated (sys.exit)
    dir,        \* INPUT_DIRECTORY on local disk: [exists, files]
    cwd,        \* the working directory of the process
    logFile,    \* content of /home/hadoop/yarn_logs.txt, or Absent
    events,     \* what the most recent call did, in order: file writes and spawned processes
    op,         \* the most recent call
    outcome,    \* how it ended: Returned or the exception that left it
    retval,     \* the value it returned (None when it returned nothing or raised)
    captured,   \* the decoded listing yarn_get_application_id last searched (a
                \* sequence of characters)
    recreate,   \* what make_input_directory did within the most recent call
    callNo,     \* number of calls made so far (stamps the files a call writes)
    stale,      \* when the most recent call began, the directory held a file
                \* written by an earlier call of this run
    again       \* the most recent call repeats the function called just before it,
                \* which had returned

vars == <<alive, dir, cwd, logFile, events, op, outcome, retval, captured, recreate,
          callNo, stale, again>>

----------------------------------------------------------------------------
(* Bounds of the model. *)

\* calls made by one run of the driver
MaxCalls == 2
\* largest num_characters_per_word / num_words / num_files / file_size_in_MiB
MaxArg == 2
\* largest number of properties passed to hadoop_print_configuration_property_values
MaxProps == 2
\* number of text pieces the yarn application listing is assembled from
MaxChunks == 4

----------------------------------------------------------------------------
(* Module constants of util.py. *)

INPUT_DIRECTORY == "/home/hadoop/input"
HADOOP_HOME == "/usr/local/hadoop"
HADOOP == HADOOP_HOME \o "/bin/hadoop"
HDFS == HADOOP_HOME \o "/bin/hdfs"
YARN == HADOOP_HOME \o "/bin/yarn"
WORD_SIZE == 1000
LOG_FILE_PATH == "/home/hadoop/yarn_logs.txt"

None == "None"
Absent == "absent"
Returned == "returned"
CalledProcessError == "CalledProcessError"
SystemExit == "SystemExit"
AttributeError == "AttributeError"

\* Python's range(n), as the number of iterations: empty for n <= 0.
RangeLen(n) == IF n > 0 THEN n ELSE 0
\* Python's ch * n, as the length of the result: empty for n <= 0.
Repeat(n) == IF n > 0 THEN n ELSE 0

\* A faulty variant: megabytes instead of mebibytes.
MiB_to_bytes_decimal(MiB) == MiB * 1000 * 1000
MiB_to_bytes(MiB) == MiB * 1024 * 1024

----------------------------------------------------------------------------
(* Spawned processes. *)

\* Where a spawned process's standard output and standard error go.
PIPE == "PIPE"
DEVNULL == "DEVNULL"
Inherited == "inherited"
LogFile == "log_file"

\* subprocess.check_output(argv, stderr=...): the output is captured; raises
\* CalledProcessError on a non-zero exit.
check_output(argv, stderr) ==
    [argv |-> argv, check |-> TRUE, stdout |-> PIPE, stderr |-> stderr]
\* subprocess.Popen(argv, stdout=...).wait(): the exit code is returned and,
\* here, dropped.
Popen_wait(argv, stdout) ==
    [argv |-> argv, check |-> FALSE, stdout |-> stdout, stderr |-> Inherited]

\* A faulty variant: the exit status is not checked.
execute_command_unchecked(command, stderr) ==
    [argv |-> <<"su", "hadoop", "-c", command>>, check |-> FALSE,
     stdout |-> PIPE, stderr |-> stderr]
\* execute_command(command, **kwargs) as a step; the keyword argument its
\* callers pass is stderr.
execute_command(command, stderr) ==
    check_output(<<"su", "hadoop", "-c", command>>, stderr)

SpawnEvent(step, exit) ==
    [type |-> "spawn", argv |-> step.argv, exit |-> exit,
     stdout |-> step.stdout, stderr |-> step.stderr,
     path |-> None, content |-> None]
WriteEvent(path, content) ==
    [type |-> "write", argv |-> <<>>, exit |-> 0, stdout |-> None, stderr |-> None,
     path |-> path, content |-> content]

\* Runs steps[i..] one after the other; exits[i] is the exit code of step i.
\* A checked step that exits non-zero raises and nothing after it runs.
RECURSIVE RunFrom(_, _, _, _)
RunFrom(steps, exits, i, acc) ==
    IF i > Len(steps) THEN [events |-> acc, raised |-> FALSE]
    ELSE LET e == SpawnEvent(steps[i], exits[i])
         IN  IF steps[i].check /\ exits[i] # 0
             THEN [events |-> Append(acc, e), raised |-> TRUE]
             ELSE RunFrom(steps, exits, i + 1, Append(acc, e))

Run(steps, exits) == RunFrom(steps, exits, 1, <<>>)

ExitCodes(n) == [1..n -> {0, 1}]

----------------------------------------------------------------------------
(* The local staging directory.  A file is kept run-length encoded: `lines` *)
(* lines, each `width` copies of `fill` and a "\n"; `call` is the number of *)
(* the call that wrote it (0: it was there before the driver started).      *)

File(fill, width, lines, call) ==
    [fill |-> fill, width |-> width, lines |-> lines, call |-> call]

ByteSize(f) == f.lines * (f.width + 1)

NoFiles == [n \in {} |-> None]

Restrict(files, names) == [n \in names |-> files[n]]

\* The working directory after its directory was removed: the process is
\* left in the removed directory, not in one made later at the same path.
Deleted(path) == path \o " (deleted)"

\* What make_input_directory does to directory d of a process standing in
\* c.  rmtreeFails / mkdirFails: the call raises OSError; left: the files an
\* rmtree that failed did not get to (the directory itself then remains).
\* failed: an OSError was caught; exited: sys.exit() was called.
\* A faulty variant: a directory that is already there is kept as it is.
make_input_directory_keep(d, c, rmtreeFails, mkdirFails, left) ==
    IF d.exists
    THEN [dir |-> d, cwd |-> c, failed |-> FALSE, exited |-> FALSE]
    ELSE IF mkdirFails
         THEN [dir |-> d, cwd |-> c, failed |-> TRUE, exited |-> TRUE]
         ELSE [dir |-> [exists |-> TRUE, files |-> NoFiles], cwd |-> c,
               failed |-> FALSE, exited |-> FALSE]

\* A faulty variant: the except clause prints and returns.
make_input_directory_no_exit(d, c, rmtreeFails, mkdirFails, left) ==
    IF d.exists /\ rmtreeFails
    THEN [dir |-> [exists |-> TRUE, files |-> Restrict(d.files, left)], cwd |-> c,
          failed |-> TRUE, exited |-> FALSE]
    ELSE LET c2 == IF d.exists /\ c = INPUT_DIRECTORY THEN Deleted(c) ELSE c
         IN  IF mkdirFails
             THEN [dir |-> [exists |-> FALSE, files |-> NoFiles], cwd |-> c2,
                   failed |-> TRUE, exited |-> FALSE]
             ELSE [dir |-> [exists |-> TRUE, files |-> NoFiles], cwd |-> c2,
                   failed |-> FALSE, exited |-> FALSE]

make_input_directory(d, c, rmtreeFails, mkdirFails, left) ==
    IF d.exists /\ rmtreeFails
    THEN \* shutil.rmtree raised: the except clause prints and exits
         [dir |-> [exists |-> TRUE, files |-> Restrict(d.files, left)], cwd |-> c,
          failed |-> TRUE, exited |-> TRUE]
    ELSE \* the directory is gone (or never was); a process that stood in it
         \* now stands in a removed directory; os.mkdir
         LET c2 == IF d.exists /\ c = INPUT_DIRECTORY THEN Deleted(c) ELSE c
         IN  IF mkdirFails
             THEN [dir |-> [exists |-> FALSE, files |-> NoFiles], cwd |-> c2,
                   failed |-> TRUE, exited |-> TRUE]
             ELSE [dir |-> [exists |-> TRUE, files |-> NoFiles], cwd |-> c2,
                   failed |-> FALSE, exited |-> FALSE]

\* The content of the file hdfs_generate_word_file writes.
\* A faulty variant: the two arguments exchanged.
word_file_swapped(num_characters_per_word, num_words, call) ==
    File("r", Repeat(num_words), RangeLen(num_characters_per_word), call)

word_file(num_characters_per_word, num_words, call) ==
    File("r", Repeat(num_characters_per_word), RangeLen(num_words), call)

\* The content of each file hdfs_generate_word_files writes.
sized_word_file(file_size_in_MiB, call) ==
    File("w", Repeat(WORD_SIZE - 1),
         RangeLen(MiB_to_bytes(file_size_in_MiB) \div WORD_SIZE), call)

\* open(name, "w") in the working directory, then the writes: the file is
\* created or truncated and holds exactly `content`.
WriteFile(d, name, content) ==
    [exists |-> d.exists, files |-> (name :> content) @@ d.files]

\* for i in range(num_files): write input_file_<i>
RECURSIVE WriteWordFiles(_, _, _, _, _)
WriteWordFiles(d, evs, i, num_files, content) ==
    IF i >= RangeLen(num_files) THEN [dir |-> d, events |-> evs]
    ELSE LET name == "input_file_" \o ToString(i)
         IN  WriteWordFiles(WriteFile(d, name, content),
                            Append(evs, WriteEvent(INPUT_DIRECTORY \o "/" \o name, content)),
                            i + 1, num_files, content)

PutCommand == HDFS \o " dfs -put " \o INPUT_DIRECTORY

----------------------------------------------------------------------------
(* The command sequences of the lifecycle functions, in source order. *)

\* A faulty variant: HDFS is started before the namenode is formatted.
hadoop_start_up_steps_format_late ==
    << execute_command(HADOOP_HOME \o "/sbin/start-dfs.sh", DEVNULL),
       execute_command(HDFS \o " namenode -format -y", DEVNULL),
       execute_command(HADOOP_HOME \o "/sbin/start-yarn.sh", DEVNULL),
       execute_command("/usr/local/java/bin/jps", DEVNULL),
       execute_command(HDFS \o " dfs -mkdir /user", DEVNULL),
       execute_command(HDFS \o " dfs -mkdir /user/hadoop", DEVNULL) >>

hadoop_start_up_steps ==
    << execute_command(HDFS \o " namenode -format -y", DEVNULL),
       execute_command(HADOOP_HOME \o "/sbin/start-dfs.sh", DEVNULL),
       execute_command(HADOOP_HOME \o "/sbin/start-yarn.sh", DEVNULL),
       execute_command("/usr/local/java/bin/jps", DEVNULL),
       execute_command(HDFS \o " dfs -mkdir /user", DEVNULL),
       execute_command(HDFS \o " dfs -mkdir /user/hadoop", DEVNULL) >>

\* A faulty variant: YARN is stopped before HDFS.
hadoop_tear_down_steps_yarn_first ==
    << execute_command(HADOOP_HOME \o "/sbin/stop-yarn.sh", DEVNULL),
       execute_command(HADOOP_HOME \o "/sbin/stop-dfs.sh", DEVNULL),
       execute_command("/usr/local/java/bin/jps", DEVNULL),
       check_output(<<"rm", "-rf", "/tmp/hadoop-hadoop", "/tmp/hadoop-yarn-hadoop">>, Inherited) >>

hadoop_tear_down_steps ==
    << execute_command(HADOOP_HOME \o "/sbin/stop-dfs.sh", DEVNULL),
       execute_command(HADOOP_HOME \o "/sbin/stop-yarn.sh", DEVNULL),
       execute_command("/usr/local/java/bin/jps", DEVNULL),
       check_output(<<"rm", "-rf", "/tmp/hadoop-hadoop", "/tmp/hadoop-yarn-hadoop">>, Inherited) >>

GetConfCommand(property) ==
    HADOOP \o " org.apache.hadoop.hdfs.tools.GetConf -confKey " \o property

ListFinishedCommand == YARN \o " application -list -appStates FINISHED"

YarnLogsCommand(application_id) ==
    "/usr/local/hadoop/bin/yarn logs -applicationId " \o application_id
        \o " -appOwner hadoop"

----------------------------------------------------------------------------
(* re.search(r'application_[0-9]+_[0-9]+', text).  Text is a sequence of    *)
(* one-character strings: the listing after .decode(), taken to be ASCII.    *)

Digits == {"0", "1", "2", "3", "4", "5", "6", "7", "8", "9"}

APPLICATION_ == <<"a", "p", "p", "l", "i", "c", "a", "t", "i", "o", "n", "_">>

\* The literal prefix of the pattern matches at position i.
LiteralAt(s, i) ==
    /\ i + Len(APPLICATION_) - 1 <= Len(s)
    /\ SubSeq(s, i, i + Len(APPLICATION_) - 1) = APPLICATION_

\* Length of the longest run of digits starting at position i.
RECURSIVE DigitRun(_, _)
DigitRun(s, i) ==
    IF i <= Len(s) /\ s[i] \in Digits THEN 1 + DigitRun(s, i + 1) ELSE 0

\* Matching [0-9]+_[0-9]+ from position i with the first group k digits long
\* (k from the longest run downwards: the quantifier is greedy and backtracks).
\* The value is the index of the last character matched, 0 for no match.
RECURSIVE TailFrom(_, _, _)
TailFrom(s, i, k) ==
    IF k < 1 THEN 0
    ELSE IF /\ i + k <= Len(s)
            /\ s[i + k] = "_"
            /\ DigitRun(s, i + k + 1) >= 1
         THEN i + k + DigitRun(s, i + k + 1)
         ELSE TailFrom(s, i, k - 1)

\* The pattern matched at position i: index of the last character, or 0.
MatchAt(s, i) ==
    IF LiteralAt(s, i)
    THEN TailFrom(s, i + Len(APPLICATION_), DigitRun(s, i + Len(APPLICATION_)))
    ELSE 0

\* The characters of cs as one string.
RECURSIVE Join(_)
Join(cs) == IF cs = <<>> THEN "" ELSE Head(cs) \o Join(Tail(cs))

\* A faulty variant: scans from the right end, so it finds the last match.
RECURSIVE SearchDown(_, _)
SearchDown(s, i) ==
    IF i < 1 THEN None
    ELSE IF MatchAt(s, i) # 0 THEN Join(SubSeq(s, i, MatchAt(s, i)))
         ELSE SearchDown(s, i - 1)

re_search_last(s) == SearchDown(s, Len(s))

\* re.search tries the start positions from left to right.
RECURSIVE SearchFrom(_, _)
SearchFrom(s, i) ==
    IF i > Len(s) THEN None
    ELSE IF MatchAt(s, i) # 0 THEN Join(SubSeq(s, i, MatchAt(s, i)))
         ELSE SearchFrom(s, i + 1)

\* The matched text (match.group()), or None.
re_search(s) == SearchFrom(s, 1)

----------------------------------------------------------------------------
(* Inputs. *)

Args == {0 - 1} \cup (0 .. MaxArg)

\* Commands a caller runs through execute_command itself, and their output.
Commands == {"echo hi", "false"}
Outputs == {"hi\n"}

Properties == {"dfs.replication"}

PropertyLists == UNION {[1..n -> Properties] : n \in 0..MaxProps}

AppIds == {"application_1_2"}

LogOutputs == {"container logs"}

\* The pieces listings are assembled from.
Chunks == { APPLICATION_,
            APPLICATION_ \o <<"1", "_", "2">>,
            <<"7">>, <<"_">>, <<"x">> }

RECURSIVE Flatten(_)
Flatten(cs) == IF cs = <<>> THEN <<>> ELSE Head(cs) \o Flatten(Tail(cs))

\* Every text made of at most n pieces.
Texts(n) == UNION {{Flatten(cs) : cs \in [1..k -> Chunks]} : k \in 0..n}

\* A few listings for the runs in which every function is called.
SampleTexts ==
    { <<>>,
      <<"x">> \o APPLICATION_ \o <<"1", "_", "2", "x">>,
      APPLICATION_ \o <<"1", "_", "2", "7", "x">> \o APPLICATION_ \o <<"1", "_", "2">> }

\* Directories the driver may find when it starts: none, or one left by an
\* earlier run.
OldFile == File("r", 1, 1, 0)
OldNames == {"input_file", "input_file_7"}
InitialDirs ==
    {[exists |-> FALSE, files |-> NoFiles]}
    \cup {[exists |-> TRUE, files |-> [n \in ns |-> OldFile]] : ns \in SUBSET OldNames}

----------------------------------------------------------------------------
(* The state machine. *)

Init ==
    /\ alive = TRUE
    /\ dir \in InitialDirs
    /\ cwd = "/"
    /\ logFile = Absent
    /\ events = <<>>
    /\ op = [name |-> None, args |-> <<>>]
    /\ outcome = None
    /\ retval = None
    /\ captured = <<>>
    /\ recreate = None
    /\ callNo = 0
    /\ stale = FALSE
    /\ again = FALSE

\* A call of function `name` with arguments `args` begins.
Call(name, args) ==
    /\ alive
    /\ callNo < MaxCalls
    /\ callNo' = callNo + 1
    /\ op' = [name |-> name, args |-> args]
    /\ stale' = (\E n \in DOMAIN dir.files : dir.files[n].call >= 1)
    /\ again' = (op.name = name /\ outcome = Returned)

\* How a call that ran `run` ends.
Ended(run) == IF run.raised THEN CalledProcessError ELSE Returned

Recreated(r) == IF r.failed THEN "failed" ELSE "ok"

MakeInputDirectory(rmtreeFails, mkdirFails, left) ==
    LET r == make_input_directory(dir, cwd, rmtreeFails, mkdirFails, left)
    IN  /\ Call("make_input_directory", <<>>)
        /\ dir' = r.dir
        /\ recreate' = Recreated(r)
        /\ alive' = ~r.exited
        /\ outcome' = IF r.exited THEN SystemExit ELSE Returned
        /\ events' = <<>>
        /\ retval' = None
        /\ cwd' = r.cwd
        /\ UNCHANGED <<logFile, captured>>

\* The part hdfs_generate_word_file and hdfs_generate_word_files share:
\* make_input_directory(), os.chdir, the writes (w: what they leave), the put.
Generate(r, w, exit) ==
    /\ recreate' = Recreated(r)
    /\ retval' = None
    /\ UNCHANGED <<logFile, captured>>
    /\ IF r.exited
       THEN /\ alive' = FALSE
            /\ dir' = r.dir
            /\ outcome' = SystemExit
            /\ events' = <<>>
            /\ cwd' = r.cwd
       ELSE IF ~r.dir.exists
       THEN \* os.chdir raises
            /\ alive' = TRUE
            /\ dir' = r.dir
            /\ outcome' = "FileNotFoundError"
            /\ events' = <<>>
            /\ cwd' = r.cwd
       ELSE LET run == Run(<<execute_command(PutCommand, DEVNULL)>>, <<exit>>)
            IN  /\ alive' = TRUE
                /\ cwd' = INPUT_DIRECTORY
                /\ dir' = w.dir
                /\ events' = w.events \o run.events
                /\ outcome' = Ended(run)

hdfs_generate_word_file(num_characters_per_word, num_words, rmtreeFails, mkdirFails, left, exit) ==
    LET r == make_input_directory(dir, cwd, rmtreeFails, mkdirFails, left)
        FILE == "input_file"
        content == word_file(num_characters_per_word, num_words, callNo + 1)
        w == [dir |-> WriteFile(r.dir, FILE, content),
              events |-> <<WriteEvent(INPUT_DIRECTORY \o "/" \o FILE, content)>>]
    IN  /\ Call("hdfs_generate_word_file", <<num_characters_per_word, num_words>>)
        /\ Generate(r, w, exit)

hdfs_generate_word_files(num_files, file_size_in_MiB, rmtreeFails, mkdirFails, left, exit) ==
    LET r == make_input_directory(dir, cwd, rmtreeFails, mkdirFails, left)
        w == WriteWordFiles(r.dir, <<>>, 0, num_files,
                            sized_word_file(file_size_in_MiB, callNo + 1))
    IN  /\ Call("hdfs_generate_word_files", <<num_files, file_size_in_MiB>>)
        /\ Generate(r, w, exit)

\* A function that only spawns processes: `run` is what its commands did.
Spawned(run) ==
    /\ events' = run.events
    /\ outcome' = Ended(run)
    /\ alive' = TRUE
    /\ recreate' = None
    /\ UNCHANGED <<dir, cwd>>

hadoop_start_up(exits) ==
    /\ Call("hadoop_start_up", <<>>)
    /\ Spawned(Run(hadoop_start_up_steps, exits))
    /\ retval' = None
    /\ UNCHANGED <<logFile, captured>>

hadoop_tear_down(exits) ==
    /\ Call("hadoop_tear_down", <<>>)
    /\ Spawned(Run(hadoop_tear_down_steps, exits))
    /\ retval' = None
    /\ UNCHANGED <<logFile, captured>>

hadoop_print_configuration_property_values(properties, exits) ==
    /\ Call("hadoop_print_configuration_property_values", properties)
    /\ Spawned(Run([i \in 1..Len(properties) |-> execute_command(GetConfCommand(properties[i]), DEVNULL)],
                   exits))
    /\ retval' = None
    /\ UNCHANGED <<logFile, captured>>

\* execute_command called on its own; out: the output captured, returned as
\* it is.
ExecuteCommand(command, stderr, exit, out) ==
    LET run == Run(<<execute_command(command, stderr)>>, <<exit>>)
    IN  /\ Call("execute_command", <<command>>)
        /\ Spawned(run)
        /\ retval' = IF run.raised THEN None ELSE out
        /\ UNCHANGED <<logFile, captured>>

\* text: what the listing command printed, decoded.
yarn_get_application_id(text, exit) ==
    LET run == Run(<<execute_command(ListFinishedCommand, DEVNULL)>>, <<exit>>)
        application_id == re_search(text)
    IN  /\ Call("yarn_get_application_id", <<>>)
        /\ events' = run.events
        /\ alive' = TRUE
        /\ recreate' = None
        /\ UNCHANGED <<dir, cwd, logFile>>
        /\ IF run.raised
           THEN /\ outcome' = CalledProcessError
                /\ captured' = <<>>
                /\ retval' = None
           ELSE /\ captured' = text
                /\ IF application_id = None
                   THEN \* None.group()
                        /\ outcome' = AttributeError
                        /\ retval' = None
                   ELSE /\ outcome' = Returned
                        /\ retval' = application_id

\* out: what the yarn logs process wrote to its standard output.
yarn_write_logs_to_file(application_id, exit, out) ==
    LET run == Run(<<Popen_wait(<<"su", "hadoop", "-c", YarnLogsCommand(application_id)>>, LogFile)>>,
                   <<exit>>)
    IN  /\ Call("yarn_write_logs_to_file", <<application_id>>)
        /\ Spawned(run)
        /\ logFile' = out
        /\ retval' = LOG_FILE_PATH
        /\ UNCHANGED captured

\* What the local filesystem and the put command may do during a generation
\* call: rmtree fails leaving any of the files behind (when there is a
\* directory to remove), or mkdir fails, or both succeed and the put exits
\* with 0 or 1.
Environments ==
    {[rmtreeFails |-> TRUE, mkdirFails |-> FALSE, left |-> l, exit |-> 0] :
        l \in IF dir.exists THEN SUBSET DOMAIN dir.files ELSE {}}
    \cup {[rmtreeFails |-> FALSE, mkdirFails |-> TRUE, left |-> {}, exit |-> 0]}
    \cup {[rmtreeFails |-> FALSE, mkdirFails |-> FALSE, left |-> {}, exit |-> x] :
            x \in {0, 1}}

Next ==
    \/ \E e \in Environments :
          MakeInputDirectory(e.rmtreeFails, e.mkdirFails, e.left)
    \/ \E c \in Args, n \in Args, e \in Environments :
          hdfs_generate_word_file(c, n, e.rmtreeFails, e.mkdirFails, e.left, e.exit)
    \/ \E f \in Args, s \in Args, e \in Environments :
          hdfs_generate_word_files(f, s, e.rmtreeFails, e.mkdirFails, e.left, e.exit)
    \/ \E command \in Commands, stderr \in {DEVNULL, Inherited}, exit \in {0, 1},
          out \in Outputs :
          ExecuteCommand(command, stderr, exit, out)
    \/ \E exits \in ExitCodes(Len(hadoop_start_up_steps)) : hadoop_start_up(exits)
    \/ \E exits \in ExitCodes(Len(hadoop_tear_down_steps)) : hadoop_tear_down(exits)
    \/ \E properties \in PropertyLists :
          \E exits \in ExitCodes(Len(properties)) :
             hadoop_print_configuration_property_values(properties, exits)
    \/ \E text \in SampleTexts, exit \in {0, 1} : yarn_get_application_id(text, exit)
    \/ \E id \in AppIds, exit \in {0, 1}, out \in LogOutputs :
          yarn_write_logs_to_file(id, exit, out)

Spec == Init /\ [][Next]_vars

\* The application-id search on its own, over every listing of the bound.
SearchInit == Init /\ ~dir.exists

SearchNext ==
    /\ callNo = 0
    /\ \E text \in Texts(MaxChunks), exit \in {0, 1} : yarn_get_application_id(text, exit)

SearchSpec == SearchInit /\ [][SearchNext]_vars

----------------------------------------------------------------------------
(* The claims. *)

Generators == {"hdfs_generate_word_file", "hdfs_generate_word_files"}

AsHadoop(command) == <<"su", "hadoop", "-c", command>>

IsCommand(e, command) == e.type = "spawn" /\ e.argv = AsHadoop(command)

StopYarn == "/usr/local/hadoop/sbin/stop-yarn.sh"
StopDfs == "/usr/local/hadoop/sbin/stop-dfs.sh"

\* C1 as stated: in every tear-down the YARN stop command is issued before
\* the HDFS stop command; the HDFS stop is never issued while the YARN stop
\* has not been issued in that invocation.
C1_YarnStopPrecedesHdfsStop ==
    op.name = "hadoop_tear_down" =>
        \A j \in DOMAIN events :
            IsCommand(events[j], StopDfs) =>
                \E i \in 1..(j - 1) : IsCommand(events[i], StopYarn)

\* C1 amended: in every tear-down the HDFS stop command is issued first and
\* the YARN stop command after it; the YARN stop is never issued unless the
\* HDFS stop was issued earlier in that invocation and exited with 0.
C1_HdfsStopPrecedesYarnStop ==
    op.name = "hadoop_tear_down" =>
        /\ events # <<>> => IsCommand(events[1], StopDfs)
        /\ \A j \in DOMAIN events :
              IsCommand(events[j], StopYarn) =>
                  \E i \in 1..(j - 1) :
                      IsCommand(events[i], StopDfs) /\ events[i].exit = 0

C1_Witness ==
    /\ op.name = "hadoop_tear_down"
    /\ Len(events) >= 2
    /\ IsCommand(events[1], StopDfs)
    /\ IsCommand(events[2], StopYarn)

\* The order of start-up's commands, as the claim lists it.
StartUpOrder ==
    << "/usr/local/hadoop/bin/hdfs namenode -format -y",
       "/usr/local/hadoop/sbin/start-dfs.sh",
       "/usr/local/hadoop/sbin/start-yarn.sh",
       "/usr/local/java/bin/jps",
       "/usr/local/hadoop/bin/hdfs dfs -mkdir /user",
       "/usr/local/hadoop/bin/hdfs dfs -mkdir /user/hadoop" >>

\* C2: every start-up issues its commands in the one order format, start
\* HDFS, start YARN, jps, mkdir /user, mkdir /user/hadoop (a start-up that
\* returns issued all six); neither daemon-start command is issued before
\* the format command of the same invocation has completed.
C2_StartUpOrder ==
    op.name = "hadoop_start_up" =>
        /\ Len(events) <= Len(StartUpOrder)
        /\ \A i \in DOMAIN events : IsCommand(events[i], StartUpOrder[i])
        /\ outcome = Returned => Len(events) = Len(StartUpOrder)
        /\ \A i \in DOMAIN events :
              (\/ IsCommand(events[i], StartUpOrder[2])
               \/ IsCommand(events[i], StartUpOrder[3]))
              => \E j \in 1..(i - 1) :
                    IsCommand(events[j], StartUpOrder[1]) /\ events[j].exit = 0

C2_Witness ==
    /\ op.name = "hadoop_start_up"
    /\ outcome = Returned
    /\ Len(events) = 6

LifecycleSteps(name) ==
    IF name = "hadoop_start_up" THEN hadoop_start_up_steps ELSE hadoop_tear_down_steps

\* C3: in start-up and tear-down, when the command of step k exits non-zero
\* the call fails at once: step k is the last command issued (no later
\* step, tear-down's rm included), and the commands before k are the steps
\* 1..k-1, each issued once and followed by no undoing command.
C3_FailingStepAborts ==
    op.name \in {"hadoop_start_up", "hadoop_tear_down"} =>
        \A k \in DOMAIN events :
            events[k].exit # 0 =>
                /\ Len(events) = k
                /\ outcome = CalledProcessError
                /\ \A i \in 1..k : events[i].argv = LifecycleSteps(op.name)[i].argv
                /\ \A i \in 1..(k - 1) : events[i].exit = 0

C3_Witness ==
    /\ op.name = "hadoop_tear_down"
    /\ Len(events) = 3
    /\ events[3].exit # 0
    /\ outcome = CalledProcessError

\* C4: a non-zero exit of any command a function of the driver spawns
\* propagates as an execution error: the function does not complete
\* normally and returns no value (yarn_write_logs_to_file must not return
\* the log path when its yarn logs command exited non-zero).
C4_NonZeroExitPropagates ==
    \A k \in DOMAIN events :
        (events[k].type = "spawn" /\ events[k].exit # 0) =>
            outcome = CalledProcessError /\ retval = None

\* C5: every external command any function spawns runs as the user hadoop
\* through su; none runs directly as the invoking user.
C5_EveryCommandAsHadoop ==
    \A k \in DOMAIN events :
        events[k].type = "spawn" =>
            /\ Len(events[k].argv) = 4
            /\ SubSeq(events[k].argv, 1, 3) = <<"su", "hadoop", "-c">>

WrittenPaths == {events[i].path : i \in {k \in DOMAIN events : events[k].type = "write"}}

\* C6: after a generation call whose directory recreation succeeded the
\* staging directory holds exactly the files that call wrote and no file of
\* an earlier call; make_input_directory alone leaves the directory existing
\* and empty, whatever it was before (so also when called twice in a row).
C6_OnlyLatestFiles ==
    /\ (op.name \in Generators /\ recreate = "ok") =>
          /\ dir.exists
          /\ \A n \in DOMAIN dir.files : dir.files[n].call = callNo
          /\ {INPUT_DIRECTORY \o "/" \o n : n \in DOMAIN dir.files} = WrittenPaths
    /\ (op.name = "make_input_directory" /\ outcome = Returned) =>
          /\ dir.exists
          /\ DOMAIN dir.files = {}

C6_Witness ==
    /\ op.name \in Generators
    /\ recreate = "ok"
    /\ stale
    /\ DOMAIN dir.files # {}

\* C7: for f, s >= 0, hdfs_generate_word_files(f, s) leaves exactly the
\* files input_file_0 .. input_file_(f-1); each is floor(s*1024*1024/1000)
\* lines of 999 'w' and a terminator, so floor(s*1024*1024/1000)*1000 bytes,
\* at most s*1024*1024 and less than 1000 short of it (f = 2, s = 1: two
\* files of 1048 lines, 1048000 bytes).
C7_SizedWordFiles ==
    (/\ op.name = "hdfs_generate_word_files"
     /\ recreate = "ok"
     /\ op.args[1] >= 0
     /\ op.args[2] >= 0) =>
        LET f == op.args[1]
            s == op.args[2]
            words == (s * 1024 * 1024) \div 1000
        IN  /\ DOMAIN dir.files = {"input_file_" \o ToString(i) : i \in 0..(f - 1)}
            /\ Cardinality(DOMAIN dir.files) = f
            /\ \A n \in DOMAIN dir.files :
                  /\ dir.files[n].fill = "w"
                  /\ dir.files[n].width = 999
                  /\ dir.files[n].lines = words
                  /\ ByteSize(dir.files[n]) = words * 1000
                  /\ ByteSize(dir.files[n]) <= s * 1024 * 1024
                  /\ s * 1024 * 1024 - ByteSize(dir.files[n]) < 1000
                  /\ s = 1 => (dir.files[n].lines = 1048 /\ ByteSize(dir.files[n]) = 1048000)

C7_Witness ==
    /\ op.name = "hdfs_generate_word_files"
    /\ op.args = <<2, 1>>
    /\ recreate = "ok"
    /\ DOMAIN dir.files = {"input_file_0", "input_file_1"}
    /\ ByteSize(dir.files["input_file_1"]) = 1048000

\* C8: when removing or creating the staging directory fails in a generation
\* call, the process terminates at once: the call writes no file, issues no
\* put, and does not return.
C8_RecreateFailureIsFatal ==
    (op.name \in Generators /\ recreate = "failed") =>
        /\ outcome = SystemExit
        /\ ~alive
        /\ events = <<>>
        /\ \A n \in DOMAIN dir.files : dir.files[n].call # callNo

C8_Witness ==
    /\ op.name \in Generators
    /\ recreate = "failed"
    /\ dir.exists
    /\ DOMAIN dir.files # {}

\* w is application_<digits>_<digits>.
IsAppId(w) ==
    /\ Len(w) >= 15
    /\ SubSeq(w, 1, 12) = <<"a", "p", "p", "l", "i", "c", "a", "t", "i", "o", "n", "_">>
    /\ \E k \in 13..(Len(w) - 2) :
          /\ \A i \in 13..k : w[i] \in Digits
          /\ w[k + 1] = "_"
          /\ \A i \in (k + 2)..Len(w) : w[i] \in Digits

\* The substrings of s that match, as <<first, last>> positions.
Matches(s) ==
    {m \in (1..Len(s)) \X (1..Len(s)) :
        m[1] + 14 <= m[2] /\ s[m[1]] = "a" /\ IsAppId(SubSeq(s, m[1], m[2]))}

\* C9: over the listing text, yarn_get_application_id returns the one
\* matching substring when there is exactly one, a matching substring that
\* starts leftmost when there are several, and raises (returns nothing) when
\* there is none.
C9_FirstApplicationId ==
    (op.name = "yarn_get_application_id" /\ outcome # CalledProcessError) =>
        LET M == Matches(captured)
        IN  /\ M = {} => (outcome = AttributeError /\ retval = None)
            /\ M # {} =>
                  /\ outcome = Returned
                  /\ \E m \in M :
                        /\ retval = Join(SubSeq(captured, m[1], m[2]))
                        /\ \A m2 \in M : m[1] <= m2[1]
            /\ Cardinality(M) = 1 =>
                  \A m \in M : retval = Join(SubSeq(captured, m[1], m[2]))

C9_Witness ==
    /\ op.name = "yarn_get_application_id"
    /\ outcome = Returned
    /\ Cardinality({m[1] : m \in Matches(captured)}) >= 2
    /\ retval = "application_1_27"

\* C10: for c, n >= 0, hdfs_generate_word_file(c, n) leaves the single file
\* input_file of n lines, each c times the one filler character and a
\* terminator (n*(c+1) bytes), and issues exactly one put of the staging
\* directory, after the file is written.
C10_WordFile ==
    (/\ op.name = "hdfs_generate_word_file"
     /\ recreate = "ok"
     /\ op.args[1] >= 0
     /\ op.args[2] >= 0) =>
        LET c == op.args[1]
            n == op.args[2]
        IN  /\ DOMAIN dir.files = {"input_file"}
            /\ dir.files["input_file"].lines = n
            /\ dir.files["input_file"].width = c
            /\ dir.files["input_file"].fill = "r"
            /\ ByteSize(dir.files["input_file"]) = n * (c + 1)
            /\ Len(events) = 2
            /\ events[1].type = "write"
            /\ events[1].path = "/home/hadoop/input/input_file"
            /\ events[1].content = dir.files["input_file"]
            /\ IsCommand(events[2], "/usr/local/hadoop/bin/hdfs dfs -put /home/hadoop/input")

C10_Witness ==
    /\ op.name = "hdfs_generate_word_file"
    /\ op.args = <<2, 1>>
    /\ recreate = "ok"
    /\ outcome = Returned
    /\ ByteSize(dir.files["input_file"]) = 3

====
